---- MODULE Spec2Model ----
(***************************************************************************)
(* A model of the concurrency and resource-control primitives of           *)
(* selenium-federation (utils.ts): Semaphore, KeywordMutex, LruCache,      *)
(* retry and Watchdog.                                                     *)
(*                                                                         *)
(* Node runs one job at a time.  An action below is the code one job runs  *)
(* between two suspension points (an await on a pending promise, a timer). *)
(* A promise's resolve() does not run the awaiting code: it queues a job,  *)
(* and queued jobs run in FIFO order after the running job has finished.   *)
(* Each component has a specification of its own over the shared variable  *)
(* tuple; the variables of the other components stay at their initial      *)
(* values.                                                                 *)
(***************************************************************************)
EXTENDS Integers, Sequences, FiniteSets, TLC

\* ------------------------------------------------------------------ bounds

\* Semaphore specification: the size given to the constructor, the callers.
SemSize == 2
SemCallers == 4
\* KeywordMutex specification: the callers and the keys they lock.
MutexCallers == 3
MutexKeys == 2

\* LruCache specification: the capacity given to the constructor, the keys and
\* values passed to set/get, and the CacheNode objects one run may allocate.
LruSize == 2
LruKeys == 4
LruVals == 2
MaxNodes == 4

\* retry specification: the largest option.max tried besides the default.
MaxAttempts == 3
\* Watchdog specification: the timeout (seconds) and the interval (ms) given to
\* the constructor, the step by which the clock advances and where it stops.
TimeoutSec == 1
IntervalMs == 1000
ClockStep == 500
MaxTime == 4000

\* Capability specification: the values a capability may take.
CapVals == 2

\* Session specification: how many times stop() is called on one session.
MaxStops == 2

\* Program constants.
DefaultMax == 10
MsPerSec == 1000
\* waitForReady: retry(..., { max: 10, interval: 1e2 })
ReadyMax == 10

SCallers == 1..SemCallers
MCallers == 1..MutexCallers
MKeys == 1..MutexKeys
\* A semaphore is an object: one is allocated by each lock() that finds no entry.
SemIds == 1..MutexCallers
NoSem == 0
NoKey == 0
LKeys == 1..LruKeys
LVals == 1..LruVals
\* CacheNode objects: HeadNode is the sentinel this.head, 1..MaxNodes are the nodes
\* allocated by set(); NoNode stands for undefined.
HeadNode == 0
NoNode == -1
Nodes == 0..MaxNodes
\* Capability keys.  SfCapsFields stands for Object.values(SF_CAPS_FIELDS): one
\* key for each field the code reads.
SfCapsFields ==
    {"SF:BROWSER_UUID", "SF:BROWSER_TAGS", "SF:NODE_UUID", "SF:NODE_TAGS", "SF:ENVS",
     "SF:CLEAN_USER_DATA"}
VendorKeys == {"browserVersion", "extOptions", "tags"} \cup SfCapsFields
OrdinaryKeys == {"browserName", "pageLoadStrategy"}
AllKeys == OrdinaryKeys \cup VendorKeys
\* A capabilities object maps each key to its value, Absent for a key it lacks.
Absent == 0
\* The keys the requests tried may set, and those the default capabilities may set.
RequestKeys == {"browserName", "browserVersion", "SF:NODE_TAGS"}
DefaultKeys == {"browserName", "browserVersion"}

VARIABLES
    \* Semaphore
    sem,          \* the Semaphore object: [size, queue]
    spc,          \* each caller's position: idle, queued, woken, holding, done
    sjobs,        \* the job queue: continuations of wait() made ready by resolve()
    sTicket,      \* history: the order number of each caller's wait() call (0: none)
    sSigAtWait,   \* history: the signal() calls made before each caller's wait()
    sWasQueued,   \* history: whether the caller's wait() pushed a resolver
    nSignals,     \* history: the signal() calls made so far
    sWakeLog,     \* history: callers in the order signal() resolved them
    sResumeLog,   \* history: callers in the order their wait() resumed
    \* KeywordMutex
    map,          \* KeywordMutex.map: key -> semaphore object (NoSem: no entry)
    sems,         \* the semaphore objects allocated so far
    nSems,        \* how many semaphore objects were allocated
    mpc,          \* each caller's position: idle, queued, woken, holding, released, failed
    mkey,         \* the key each caller passed to lock()/release()
    msem,         \* the semaphore object captured by the caller's lock() call
    mjobs,        \* the job queue: continuations of wait() made ready by resolve()
    \* LruCache
    cache,        \* the LruCache object and its CacheNode objects:
                  \*   map: key -> node (NoNode: no entry), next/prev: the links,
                  \*   key/val: the nodes' fields, n: the nodes allocated
    recency,      \* history: the stored keys, most recently touched first
    lastOp,       \* history: what the latest set/get call did
    \* retry
    rpc,          \* position of the retry() call: idle, loop, delay, returned, thrown
    rmax,         \* const max
    rcond,        \* whether option.condition is given
    ri,           \* the loop variable i
    rcalls,       \* history: invocations of the callback
    rwaits,       \* history: Bluebird.delay calls
    rlog,         \* history: the outcome of each invocation: ok, retryable, fatal
    rres,         \* what retry() returned or threw
    \* Watchdog
    wnow,         \* Date.now()
    wtimestamp,   \* this.timestamp, the deadline
    wtimer,       \* whether the interval timer is still set
    wnextPoll,    \* the earliest time of the next timer callback
    wfired,       \* history: invocations of onTimeout
    wlastFeed,    \* history: the time of the latest feed()
    wfiredAt,     \* history: the time onTimeout was last invoked (-1: never)
    wfiredFeed,   \* history: the time of the latest feed() before that invocation
    wmaxGap,      \* history: the longest time seen to pass without a feed()
    \* RequestCapabilities
    cpc,          \* none, request, sanitized, posted
    cdata,        \* request.body: [hasDc, dc, hasAm, am, rest]
    cdata0,       \* history: request.body as it was received
    cdefaults,    \* webdriverConfiguration.defaultCapabilities
    csan,         \* what sanitizedCapbilities returned
    cposted,      \* the body given to axios.post('/session', ...)
    \* Session (AbstractWebdriveSession and its variants)
    sessPc,       \* none, unsupported, created, spawning, probing, probeDelay, creating,
                  \* ready, startFailed, deleting, removing, stopped, stopFailed
    variant,      \* the class the factory chose: chromium, firefox, common
    cleanCap,     \* the request's clean-user-data capability: absent, true, false, other
    cleanDefault, \* webdriverConfiguration.cleanUserData
    process,      \* this.process is set
    response,     \* this.response: [set, raw]
    probeI,       \* waitForReady's loop variable i
    probes,       \* history: GET /status requests issued
    probeOk,      \* history: a GET /status succeeded
    posts,        \* history: POST /session requests issued
    postOk,       \* history: the POST /session succeeded
    startRes,     \* how start() ended: [kind, src, n]
    stopCalls,    \* history: calls of stop()
    tlog,         \* history: the teardown steps of the latest stop(), in order
    delReturned,  \* history: the latest stop()'s delete command returned
    killThrew,    \* history: processManager.killProcessGroup threw in the latest stop()
    flagSeen      \* history: the value shouldCleanUserData had in postStop: unread, true, false

semVars == <<sem, spc, sjobs, sTicket, sSigAtWait, sWasQueued, nSignals, sWakeLog, sResumeLog>>
mutexVars == <<map, sems, nSems, mpc, mkey, msem, mjobs>>
lruVars == <<cache, recency, lastOp>>
retryVars == <<rpc, rmax, rcond, ri, rcalls, rwaits, rlog, rres>>
wdVars == <<wnow, wtimestamp, wtimer, wnextPoll, wfired, wlastFeed, wfiredAt, wfiredFeed, wmaxGap>>
capsVars == <<cpc, cdata, cdata0, cdefaults, csan, cposted>>
sessVars ==
    <<sessPc, variant, cleanCap, cleanDefault, process, response, probeI, probes, probeOk,
      posts, postOk, startRes, stopCalls, tlog, delReturned, killThrew, flagSeen>>
vars == <<semVars, mutexVars, lruVars, retryVars, wdVars, capsVars, sessVars>>

\* --------------------------------------------------------------- Semaphore

\* new Semaphore(n): the queue starts empty.
SemNew(n) == [size |-> n, queue |-> <<>>]

\* wait(): the test that decides whether the caller suspends.
SemMustSuspend(s) == s.size - 1 < 0

\* wait(): new Promise(resolve => this.queue.push(resolve)); the resolver is
\* identified with the caller it resumes.
SemEnqueue(s, c) == [s EXCEPT !.queue = Append(@, c)]

\* wait(): this.size -= 1, run at once or when the caller resumes.
SemTake(s) == [s EXCEPT !.size = @ - 1]

\* A signal() that pops the newest resolver instead of the oldest.
SemSignalLifo(s) ==
    IF s.queue = <<>>
    THEN [sem |-> [s EXCEPT !.size = @ + 1], woken |-> <<>>]
    ELSE [sem |-> [size |-> s.size + 1, queue |-> SubSeq(s.queue, 1, Len(s.queue) - 1)],
          woken |-> <<s.queue[Len(s.queue)]>>]

\* signal(): size += 1, then queue.shift() and resolve() of the resolver shifted.
\* woken is the sequence (empty or one caller) of callers made ready.
SemSignal(s) ==
    IF s.queue = <<>>
    THEN [sem |-> [s EXCEPT !.size = @ + 1], woken |-> <<>>]
    ELSE [sem |-> [size |-> s.size + 1, queue |-> Tail(s.queue)],
          woken |-> <<Head(s.queue)>>]

SemInit ==
    /\ sem = SemNew(SemSize)
    /\ spc = [c \in SCallers |-> "idle"]
    /\ sjobs = <<>>
    /\ sTicket = [c \in SCallers |-> 0]
    /\ sSigAtWait = [c \in SCallers |-> 0]
    /\ sWasQueued = [c \in SCallers |-> FALSE]
    /\ nSignals = 0
    /\ sWakeLog = <<>>
    /\ sResumeLog = <<>>

SemTickets == Cardinality({c \in SCallers : sTicket[c] # 0})

\* A caller calls wait(): it either takes a unit at once or suspends in the queue.
SWait(c) ==
    /\ spc[c] = "idle"
    /\ sTicket' = [sTicket EXCEPT ![c] = SemTickets + 1]
    /\ sSigAtWait' = [sSigAtWait EXCEPT ![c] = nSignals]
    /\ IF SemMustSuspend(sem)
       THEN /\ sem' = SemEnqueue(sem, c)
            /\ spc' = [spc EXCEPT ![c] = "queued"]
            /\ sWasQueued' = [sWasQueued EXCEPT ![c] = TRUE]
       ELSE /\ sem' = SemTake(sem)
            /\ spc' = [spc EXCEPT ![c] = "holding"]
            /\ sWasQueued' = sWasQueued
    /\ UNCHANGED <<sjobs, nSignals, sWakeLog, sResumeLog, mutexVars, lruVars, retryVars, wdVars, capsVars, sessVars>>

\* A caller whose wait() completed calls signal().
SSignal(c) ==
    /\ spc[c] = "holding"
    /\ LET r == SemSignal(sem) IN
        /\ sem' = r.sem
        /\ sjobs' = sjobs \o r.woken
        /\ sWakeLog' = sWakeLog \o r.woken
        /\ spc' = [d \in SCallers |->
                     IF d = c THEN "done"
                     ELSE IF r.woken # <<>> /\ d = r.woken[1] THEN "woken"
                     ELSE spc[d]]
    /\ nSignals' = nSignals + 1
    /\ UNCHANGED <<sTicket, sSigAtWait, sWasQueued, sResumeLog, mutexVars, lruVars, retryVars, wdVars, capsVars, sessVars>>

\* The oldest ready job runs: the caller resumes after its await and takes a unit.
SResume ==
    /\ sjobs # <<>>
    /\ LET c == Head(sjobs) IN
        /\ sem' = SemTake(sem)
        /\ spc' = [spc EXCEPT ![c] = "holding"]
        /\ sResumeLog' = Append(sResumeLog, c)
    /\ sjobs' = Tail(sjobs)
    /\ UNCHANGED <<sTicket, sSigAtWait, sWasQueued, nSignals, sWakeLog, mutexVars, lruVars, retryVars, wdVars, capsVars, sessVars>>

SemNext ==
    \/ \E c \in SCallers : SWait(c)
    \/ \E c \in SCallers : SSignal(c)
    \/ SResume

\* ------------------------------------------------------------ KeywordMutex

MutexInit ==
    /\ map = [k \in MKeys |-> NoSem]
    /\ sems = [s \in SemIds |-> SemNew(1)]
    /\ nSems = 0
    /\ mpc = [c \in MCallers |-> "idle"]
    /\ mkey = [c \in MCallers |-> NoKey]
    /\ msem = [c \in MCallers |-> NoSem]
    /\ mjobs = <<>>

\* lock(key) up to its await: the semaphore found in the map, or a new
\* Semaphore(1) registered under the key.
KmLookup(m, n, k) ==
    IF m[k] # NoSem
    THEN [map |-> m, nSems |-> n, sem |-> m[k]]
    ELSE [map |-> [m EXCEPT ![k] = n + 1], nSems |-> n + 1, sem |-> n + 1]

\* A release(key) that signals without looking the key up first: with no
\* entry it registers a semaphore instead of throwing.
KmReleaseUnchecked(m, ss, k) ==
    IF m[k] = NoSem
    THEN [threw |-> FALSE, map |-> [m EXCEPT ![k] = 1], sems |-> ss, woken |-> <<>>]
    ELSE LET r == SemSignal(ss[m[k]]) IN
         [threw |-> FALSE,
          map |-> IF 1 = r.sem.size THEN [m EXCEPT ![k] = NoSem] ELSE m,
          sems |-> [ss EXCEPT ![m[k]] = r.sem],
          woken |-> r.woken]

\* release(key): throws when the map has no entry; else signals the entry's
\* semaphore and deletes the entry when the semaphore's size is 1 afterwards.
KmRelease(m, ss, k) ==
    IF m[k] = NoSem
    THEN [threw |-> TRUE, map |-> m, sems |-> ss, woken |-> <<>>]
    ELSE LET r == SemSignal(ss[m[k]]) IN
         [threw |-> FALSE,
          map |-> IF 1 = r.sem.size THEN [m EXCEPT ![k] = NoSem] ELSE m,
          sems |-> [ss EXCEPT ![m[k]] = r.sem],
          woken |-> r.woken]

\* getPending(key)
getPending(m, ss, k) == IF m[k] # NoSem THEN 1 - ss[m[k]].size ELSE 0

\* A caller calls lock(k): it resolves at once or suspends in the semaphore's queue.
MLock(c, k) ==
    /\ mpc[c] = "idle"
    /\ LET l == KmLookup(map, nSems, k) IN
        /\ map' = l.map
        /\ nSems' = l.nSems
        /\ msem' = [msem EXCEPT ![c] = l.sem]
        /\ IF SemMustSuspend(sems[l.sem])
           THEN /\ sems' = [sems EXCEPT ![l.sem] = SemEnqueue(@, c)]
                /\ mpc' = [mpc EXCEPT ![c] = "queued"]
           ELSE /\ sems' = [sems EXCEPT ![l.sem] = SemTake(@)]
                /\ mpc' = [mpc EXCEPT ![c] = "holding"]
    /\ mkey' = [mkey EXCEPT ![c] = k]
    /\ UNCHANGED <<mjobs, semVars, lruVars, retryVars, wdVars, capsVars, sessVars>>

\* The effect of one release(k) call made by caller c.
MDoRelease(c, k) ==
    LET r == KmRelease(map, sems, k) IN
        /\ map' = r.map
        /\ sems' = r.sems
        /\ mjobs' = mjobs \o r.woken
        /\ mpc' = [d \in MCallers |->
                     IF d = c THEN (IF r.threw THEN "failed" ELSE "released")
                     ELSE IF r.woken # <<>> /\ d = r.woken[1] THEN "woken"
                     ELSE mpc[d]]

\* A caller whose lock(k) resolved calls release(k).
MRelease(c) ==
    /\ mpc[c] = "holding"
    /\ MDoRelease(c, mkey[c])
    /\ UNCHANGED <<nSems, mkey, msem, semVars, lruVars, retryVars, wdVars, capsVars, sessVars>>

\* A caller that holds nothing calls release(k) on a key with no entry.
MReleaseUnlocked(c, k) ==
    /\ mpc[c] = "idle"
    /\ map[k] = NoSem
    /\ MDoRelease(c, k)
    /\ mkey' = [mkey EXCEPT ![c] = k]
    /\ UNCHANGED <<nSems, msem, semVars, lruVars, retryVars, wdVars, capsVars, sessVars>>

\* The oldest ready job runs: the caller resumes inside wait(), takes the unit
\* of the semaphore it waited on, and its lock() resolves.
MResume ==
    /\ mjobs # <<>>
    /\ LET c == Head(mjobs) IN
        /\ sems' = [sems EXCEPT ![msem[c]] = SemTake(@)]
        /\ mpc' = [mpc EXCEPT ![c] = "holding"]
    /\ mjobs' = Tail(mjobs)
    /\ UNCHANGED <<map, nSems, mkey, msem, semVars, lruVars, retryVars, wdVars, capsVars, sessVars>>

MutexNext ==
    \/ \E c \in MCallers, k \in MKeys : MLock(c, k)
    \/ \E c \in MCallers : MRelease(c)
    \/ \E c \in MCallers, k \in MKeys : MReleaseUnlocked(c, k)
    \/ MResume

\* ---------------------------------------------------------------- LruCache

\* new LruCache(maxSize): an empty map and a head sentinel with no links.
LruNew ==
    [map |-> [k \in LKeys |-> NoNode],
     next |-> [x \in Nodes |-> NoNode],
     prev |-> [x \in Nodes |-> NoNode],
     key |-> [x \in Nodes |-> NoKey],
     val |-> [x \in Nodes |-> 0],
     n |-> 0]

\* this.map.size and the keys of this.map
StoredKeys(C) == {k \in LKeys : C.map[k] # NoNode}
MapSize(C) == Cardinality(StoredKeys(C))

\* insertNode(node, after): node.prev = after; node.next = after.next;
\* after.next = node.  The old after.next keeps the prev it had.
insertNode(C, node, after) ==
    [C EXCEPT !.prev = [C.prev EXCEPT ![node] = after],
              !.next = [C.next EXCEPT ![node] = C.next[after], ![after] = node]]

\* removeNode(node): node.prev.next = node.next; if (node.next)
\* node.next.prev = node.prev.
removeNode(C, node) ==
    LET nx == [C.next EXCEPT ![C.prev[node]] = C.next[node]] IN
    [C EXCEPT !.next = nx,
              !.prev = IF nx[node] # NoNode
                       THEN [C.prev EXCEPT ![nx[node]] = C.prev[node]]
                       ELSE C.prev]

RECURSIVE LastFrom(_, _)
LastFrom(C, x) == IF C.next[x] = NoNode THEN x ELSE LastFrom(C, C.next[x])

\* getTailNode(): undefined for an empty list, else the last node reached from head.
getTailNode(C) == IF C.next[HeadNode] = NoNode THEN NoNode ELSE LastFrom(C, HeadNode)

\* set(), first part: at capacity, delete the tail's key from the map and
\* unlink the tail.
LruEvict(C) ==
    IF MapSize(C) >= LruSize
    THEN LET tail == getTailNode(C) IN
         IF tail # NoNode
         THEN removeNode([C EXCEPT !.map[C.key[tail]] = NoNode], tail)
         ELSE C
    ELSE C

\* set(), second part: reuse the key's node (unlinked, value replaced) or
\* allocate one; store it in the map and link it after head.
LruStore(C, k, v) ==
    LET node == C.map[k] IN
    IF node # NoNode
    THEN insertNode([removeNode(C, node) EXCEPT !.val[node] = v, !.map[k] = node],
                    node, HeadNode)
    ELSE LET new == C.n + 1 IN
         insertNode([C EXCEPT !.n = new, !.key[new] = k, !.val[new] = v,
                              !.map[k] = new], new, HeadNode)

\* set(key, value)
LruSetOp(C, k, v) == LruStore(LruEvict(C), k, v)

\* get(key): on a hit the node is unlinked and linked after head again.
LruGetOp(C, k) ==
    LET node == C.map[k] IN
    IF node = NoNode THEN C ELSE insertNode(removeNode(C, node), node, HeadNode)

\* get(key)'s return value (0: undefined).
LruGetRet(C, k) == IF C.map[k] = NoNode THEN 0 ELSE C.val[C.map[k]]

\* The reference recency order after key k was touched and the map became m.
Touched(rec, k, stored) ==
    <<k>> \o SelectSeq(rec, LAMBDA x : x # k /\ x \in stored)

NoOp ==
    [op |-> "none", key |-> NoKey, isNew |-> FALSE, full |-> FALSE, hit |-> FALSE,
     removed |-> {}, lru |-> NoKey, readBefore |-> NoKey, ret |-> 0,
     sameKeys |-> TRUE, othersKept |-> TRUE, stored |-> FALSE]

LruInit ==
    /\ cache = LruNew
    /\ recency = <<>>
    /\ lastOp = NoOp

\* A call of set(k, v).
LruSet(k, v) ==
    /\ (LruEvict(cache).map[k] # NoNode \/ cache.n < MaxNodes)
    /\ cache' = LruSetOp(cache, k, v)
    /\ recency' = Touched(recency, k, StoredKeys(cache'))
    /\ lastOp' = [op |-> "set", key |-> k,
                  isNew |-> cache.map[k] = NoNode,
                  full |-> MapSize(cache) = LruSize,
                  hit |-> FALSE,
                  removed |-> StoredKeys(cache) \ StoredKeys(cache'),
                  lru |-> IF recency = <<>> THEN NoKey ELSE recency[Len(recency)],
                  readBefore |-> IF lastOp.op = "get" /\ lastOp.hit
                                 THEN lastOp.key ELSE NoKey,
                  ret |-> 0,
                  sameKeys |-> StoredKeys(cache') = StoredKeys(cache),
                  othersKept |-> \A o \in StoredKeys(cache) \ {k} :
                                    LruGetRet(cache', o) = LruGetRet(cache, o),
                  stored |-> /\ LruGetRet(cache', k) = v
                             /\ cache'.next[HeadNode] = cache'.map[k]]
    /\ UNCHANGED <<semVars, mutexVars, retryVars, wdVars, capsVars, sessVars>>

\* A call of get(k).
LruGet(k) ==
    /\ cache' = LruGetOp(cache, k)
    /\ recency' = IF cache.map[k] = NoNode THEN recency
                  ELSE Touched(recency, k, StoredKeys(cache'))
    /\ lastOp' = [NoOp EXCEPT !.op = "get", !.key = k,
                              !.hit = cache.map[k] # NoNode,
                              !.ret = LruGetRet(cache, k)]
    /\ UNCHANGED <<semVars, mutexVars, retryVars, wdVars, capsVars, sessVars>>

LruNext ==
    \/ \E k \in LKeys, v \in LVals : LruSet(k, v)
    \/ \E k \in LKeys : LruGet(k)

\* ------------------------------------------------------------------- retry

\* option.max values tried: 0 stands for an absent (or zero) option.max.
OptMax == (-1)..MaxAttempts

\* const max = option.max || 10
EffectiveMax(opt) == IF opt = 0 THEN DefaultMax ELSE opt

\* A retry test that lets the last attempt be retried too.
ShouldRetryAlways(hasCond, retryable, i, max) ==
    (~hasCond \/ retryable) /\ i < max

\* A retry test that never asks the predicate.
ShouldRetryIgnoreCond(hasCond, retryable, i, max) == i < max - 1

\* (!option.condition || option.condition(e)) && i < max - 1
ShouldRetry(hasCond, retryable, i, max) ==
    (~hasCond \/ retryable) /\ i < max - 1

NoResult == [kind |-> "none", of |-> 0]

RetryInit ==
    /\ rpc = "idle"
    /\ rmax = 0
    /\ rcond = FALSE
    /\ ri = 0
    /\ rcalls = 0
    /\ rwaits = 0
    /\ rlog = <<>>
    /\ rres = NoResult

\* retry(cb, option) is called: max is computed and the loop starts at i = 0.
RetryStart(opt, hasCond) ==
    /\ rpc = "idle"
    /\ rpc' = "loop"
    /\ rmax' = EffectiveMax(opt)
    /\ rcond' = hasCond
    /\ ri' = 0
    /\ UNCHANGED <<rcalls, rwaits, rlog, rres, semVars, mutexVars, lruVars, wdVars, capsVars, sessVars>>

\* One loop iteration: the callback is invoked and returns, or throws an error
\* the predicate would accept ("retryable") or reject ("fatal").  The k-th
\* invocation's value and error are both identified by k.
RetryAttempt(outcome) ==
    /\ rpc = "loop"
    /\ ri < rmax
    /\ rcalls' = rcalls + 1
    /\ rlog' = Append(rlog, outcome)
    /\ IF outcome = "ok"
       THEN /\ rpc' = "returned"
            /\ rres' = [kind |-> "value", of |-> rcalls + 1]
            /\ rwaits' = rwaits
       ELSE IF ShouldRetry(rcond, outcome = "retryable", ri, rmax)
            THEN /\ rpc' = "delay"
                 /\ rwaits' = rwaits + 1
                 /\ rres' = rres
            ELSE /\ rpc' = "thrown"
                 /\ rres' = [kind |-> "error", of |-> rcalls + 1]
                 /\ rwaits' = rwaits
    /\ UNCHANGED <<rmax, rcond, ri, semVars, mutexVars, lruVars, wdVars, capsVars, sessVars>>

\* Bluebird.delay(interval) is over: continue, i++.
RetryDelayDone ==
    /\ rpc = "delay"
    /\ rpc' = "loop"
    /\ ri' = ri + 1
    /\ UNCHANGED <<rmax, rcond, rcalls, rwaits, rlog, rres, semVars, mutexVars, lruVars, wdVars, capsVars, sessVars>>

\* The loop condition i < max fails: the function ends and resolves to undefined.
RetryLoopExit ==
    /\ rpc = "loop"
    /\ ~(ri < rmax)
    /\ rpc' = "returned"
    /\ rres' = [kind |-> "undefined", of |-> 0]
    /\ UNCHANGED <<rmax, rcond, ri, rcalls, rwaits, rlog, semVars, mutexVars, lruVars, wdVars, capsVars, sessVars>>

RetryNext ==
    \/ \E opt \in OptMax, hasCond \in BOOLEAN : RetryStart(opt, hasCond)
    \/ \E outcome \in {"ok", "retryable", "fatal"} : RetryAttempt(outcome)
    \/ RetryDelayDone
    \/ RetryLoopExit

\* ---------------------------------------------------------------- Watchdog

\* A feed() that adds the timeout as if it were in milliseconds.
WdDeadlineNoScale(now) == now + TimeoutSec

\* feed(): Date.now() + this.timeout * 1e3
WdDeadline(now) == now + TimeoutSec * MsPerSec

\* the timer callback's test: this.timestamp < Date.now()
WdExpired(ts, now) == ts < now

\* A timer callback that does not call this.stop().
WdTimerKept(timer) == timer

\* this.stop() in the timer callback: clearInterval(this.timer)
WdTimerAfterTimeout(timer) == FALSE

\* The constructor: feed(), then setInterval(..., interval).
WdInit ==
    /\ wnow = 0
    /\ wtimestamp = WdDeadline(0)
    /\ wtimer = TRUE
    /\ wnextPoll = IntervalMs
    /\ wfired = 0
    /\ wlastFeed = 0
    /\ wfiredAt = -1
    /\ wfiredFeed = -1
    /\ wmaxGap = 0

\* Time passes.
WdTick ==
    /\ wnow < MaxTime
    /\ wnow' = wnow + ClockStep
    /\ wmaxGap' = IF wnow' - wlastFeed > wmaxGap THEN wnow' - wlastFeed ELSE wmaxGap
    /\ UNCHANGED <<wtimestamp, wtimer, wnextPoll, wfired, wlastFeed, wfiredAt, wfiredFeed,
                   semVars, mutexVars, lruVars, retryVars, capsVars, sessVars>>

\* The interval timer's callback runs (never before its interval has passed).
WdPoll ==
    /\ wtimer
    /\ wnow >= wnextPoll
    /\ wnextPoll' = wnow + IntervalMs
    /\ IF WdExpired(wtimestamp, wnow)
       THEN /\ wtimer' = WdTimerAfterTimeout(wtimer)
            /\ wfired' = wfired + 1
            /\ wfiredAt' = wnow
            /\ wfiredFeed' = wlastFeed
       ELSE UNCHANGED <<wtimer, wfired, wfiredAt, wfiredFeed>>
    /\ UNCHANGED <<wnow, wtimestamp, wlastFeed, wmaxGap, semVars, mutexVars, lruVars, retryVars, capsVars, sessVars>>

\* feed()
WdFeed ==
    /\ wtimestamp' = WdDeadline(wnow)
    /\ wlastFeed' = wnow
    /\ UNCHANGED <<wnow, wtimer, wnextPoll, wfired, wfiredAt, wfiredFeed, wmaxGap,
                   semVars, mutexVars, lruVars, retryVars, capsVars, sessVars>>

\* stop(), called by the owner.
WdStop ==
    /\ wtimer
    /\ wtimer' = FALSE
    /\ UNCHANGED <<wnow, wtimestamp, wnextPoll, wfired, wlastFeed, wfiredAt, wfiredFeed,
                   wmaxGap, semVars, mutexVars, lruVars, retryVars, capsVars, sessVars>>

WdNext ==
    \/ WdTick
    \/ WdPoll
    \/ WdFeed
    \/ WdStop

\* ----------------------------------------------------- RequestCapabilities

NoCaps == [k \in AllKeys |-> Absent]

\* The capabilities objects tried: every assignment of values to keys.
CapsOver(keys) ==
    {[k \in AllKeys |-> IF k \in keys THEN f[k] ELSE Absent] : f \in [keys -> 0..CapVals]}

\* The request bodies tried: desiredCapabilities and capabilities.alwaysMatch
\* are each present or not, rest is the body's other content.
Payloads ==
    {[hasDc |-> TRUE, dc |-> d, hasAm |-> TRUE, am |-> a, rest |-> r] :
        d \in CapsOver(RequestKeys), a \in CapsOver(RequestKeys), r \in {1, 2}}
    \cup {[hasDc |-> TRUE, dc |-> d, hasAm |-> FALSE, am |-> NoCaps, rest |-> r] :
        d \in CapsOver(RequestKeys), r \in {1, 2}}
    \cup {[hasDc |-> FALSE, dc |-> NoCaps, hasAm |-> TRUE, am |-> a, rest |-> r] :
        a \in CapsOver(RequestKeys), r \in {1, 2}}
    \cup {[hasDc |-> FALSE, dc |-> NoCaps, hasAm |-> FALSE, am |-> NoCaps, rest |-> r] :
        r \in {1, 2}}

\* delete caps[key] for each key of the list
DeleteKeys(caps, keys) == [k \in AllKeys |-> IF k \in keys THEN Absent ELSE caps[k]]

\* A sanitizedCapbilities that deletes from the request body itself instead of
\* a clone of it.
SanitizeInPlace(data) ==
    LET out == [data EXCEPT
                  !.dc = IF data.hasDc THEN DeleteKeys(@, VendorKeys) ELSE @,
                  !.am = IF data.hasAm THEN DeleteKeys(@, VendorKeys) ELSE @]
    IN [data |-> out, caps |-> out]

\* sanitizedCapbilities: the keys are deleted from a deep clone of the body, at
\* desiredCapabilities and at capabilities.alwaysMatch where they exist.  data
\* is the request body after the call, caps the object returned.
sanitizedCapbilities(data) ==
    [data |-> data,
     caps |-> [data EXCEPT
                  !.dc = IF data.hasDc THEN DeleteKeys(@, VendorKeys) ELSE @,
                  !.am = IF data.hasAm THEN DeleteKeys(@, VendorKeys) ELSE @]]

\* lodash _.merge(object, source) on flat objects: every key source defines is
\* assigned to object.
LodashMerge(object, source) ==
    [k \in AllKeys |-> IF source[k] # Absent THEN source[k] ELSE object[k]]

\* mergeDefaultCaps(caps)
mergeDefaultCaps(caps, defaultCaps) ==
    [caps EXCEPT !.dc = IF caps.hasDc THEN LodashMerge(@, defaultCaps) ELSE @,
                 !.am = IF caps.hasAm THEN LodashMerge(@, defaultCaps) ELSE @]

NoPayload == [hasDc |-> FALSE, dc |-> NoCaps, hasAm |-> FALSE, am |-> NoCaps, rest |-> 0]

CapsInit ==
    /\ cpc = "none"
    /\ cdata = NoPayload
    /\ cdata0 = NoPayload
    /\ cdefaults = NoCaps
    /\ csan = NoPayload
    /\ cposted = NoPayload

\* new RequestCapabilities(request) for a request with the given body.
CapsNewRequest(body) ==
    /\ cpc = "none"
    /\ cpc' = "request"
    /\ cdata' = body
    /\ cdata0' = body
    /\ UNCHANGED <<cdefaults, csan, cposted, semVars, mutexVars, lruVars, retryVars, wdVars, sessVars>>

\* A read of request.sanitizedCapbilities.
CapsSanitize ==
    /\ cpc = "request"
    /\ cpc' = "sanitized"
    /\ LET r == sanitizedCapbilities(cdata) IN
        /\ cdata' = r.data
        /\ csan' = r.caps
    /\ UNCHANGED <<cdata0, cdefaults, cposted, semVars, mutexVars, lruVars, retryVars, wdVars, sessVars>>

\* createSession(request) of a session whose driver configuration has the
\* given defaultCapabilities: the body posted is
\* mergeDefaultCaps(request.sanitizedCapbilities).
CapsCreateSession(defaultCaps) ==
    /\ cpc = "request"
    /\ cpc' = "posted"
    /\ cdefaults' = defaultCaps
    /\ LET r == sanitizedCapbilities(cdata) IN
        /\ cdata' = r.data
        /\ csan' = r.caps
        /\ cposted' = mergeDefaultCaps(r.caps, defaultCaps)
    /\ UNCHANGED <<cdata0, semVars, mutexVars, lruVars, retryVars, wdVars, sessVars>>

CapsNext ==
    \/ \E body \in Payloads : CapsNewRequest(body)
    \/ CapsSanitize
    \/ \E d \in CapsOver(DefaultKeys) : CapsCreateSession(d)

\* ------------------------------------------------------------------ Session

\* The browser names tried; "opera" stands for every name the factory rejects.
BrowserNames == {"chrome", "MicrosoftEdge", "firefox", "safari", "opera"}

\* createSession(request, ...): the class instantiated, "none" when it throws.
SessionVariant(browserName) ==
    IF browserName \in {"chrome", "MicrosoftEdge"} THEN "chromium"
    ELSE IF browserName = "firefox" THEN "firefox"
    ELSE IF browserName = "safari" THEN "common"
    ELSE "none"

\* RequestCapabilities.shouldcleanUserData: the capability when it is a
\* boolean, undefined otherwise.
shouldcleanUserData(cap) == IF cap \in {"true", "false"} THEN cap ELSE "undefined"

\* A cleanup flag computed as (override || default).
ShouldCleanOr(override, default) == override = "true" \/ default

\* AbstractWebdriveSession.shouldCleanUserData
shouldCleanUserData(override, default) ==
    IF override = "undefined" THEN default ELSE override = "true"

\* The sessionId members tried: a string, a number, none.
StringIds == {"s1"}
NoId == "undefined"
IdVals == StringIds \cup {NoId, "number"}
NoData == [sessionId |-> NoId, userDataDir |-> FALSE]

\* The bodies the driver may answer POST /session with.  top is the body
\* itself, value its value member when hasValue; userDataDir tells whether the
\* capabilities there name a user-data directory.
RawResponses ==
    {[hasValue |-> TRUE, top |-> [sessionId |-> a, userDataDir |-> FALSE],
      value |-> [sessionId |-> b, userDataDir |-> d]] :
        a \in IdVals, b \in IdVals, d \in BOOLEAN}
    \cup {[hasValue |-> FALSE, top |-> [sessionId |-> a, userDataDir |-> d], value |-> NoData] :
        a \in IdVals, d \in BOOLEAN}

NoResponse == [set |-> FALSE, raw |-> [hasValue |-> FALSE, top |-> NoData, value |-> NoData]]

\* ResponseCapabilities: rawResponseData = rawResponse?.value || rawResponse
rawResponseData(resp) == IF resp.raw.hasValue THEN resp.raw.value ELSE resp.raw.top

\* An id getter that returns whatever sessionId the response has.
SessionIdUnchecked(resp) ==
    LET sessionId == IF resp.set THEN rawResponseData(resp).sessionId ELSE NoId
    IN IF sessionId # NoId
       THEN [threw |-> FALSE, value |-> sessionId]
       ELSE [threw |-> TRUE, value |-> NoId]

\* The id getter: [threw, value].
SessionIdOf(resp) ==
    LET sessionId == IF resp.set THEN rawResponseData(resp).sessionId ELSE NoId
    IN IF sessionId \in StringIds
       THEN [threw |-> FALSE, value |-> sessionId]
       ELSE [threw |-> TRUE, value |-> NoId]

\* chromeUserDataDir || msEdgeUserDataDir is a path
UserDataDirCaptured(resp) == resp.set /\ rawResponseData(resp).userDataDir

\* A killProcessGroup that lets the process manager's error through.
KillPropagates(hasProcess, fails) ==
    [attempted |-> hasProcess, threw |-> hasProcess /\ fails]

\* AbstractWebdriveSession.killProcessGroup: the kill is attempted when
\* this.process is set, and what it throws is caught.
killProcessGroup(hasProcess, fails) ==
    [attempted |-> hasProcess, threw |-> FALSE]

NoStart == [kind |-> "none", src |-> "", n |-> 0]

SessInit ==
    /\ sessPc = "none"
    /\ variant = "none"
    /\ cleanCap = "absent"
    /\ cleanDefault = TRUE
    /\ process = FALSE
    /\ response = NoResponse
    /\ probeI = 0
    /\ probes = 0
    /\ probeOk = FALSE
    /\ posts = 0
    /\ postOk = FALSE
    /\ startRes = NoStart
    /\ stopCalls = 0
    /\ tlog = <<>>
    /\ delReturned = FALSE
    /\ killThrew = FALSE
    /\ flagSeen = "unread"

\* createSession(request, webdriverConfiguration, processManager, axios)
SessNew(browserName, cap, default) ==
    /\ sessPc = "none"
    /\ variant' = SessionVariant(browserName)
    /\ sessPc' = IF SessionVariant(browserName) = "none" THEN "unsupported" ELSE "created"
    /\ cleanCap' = cap
    /\ cleanDefault' = default
    /\ UNCHANGED <<process, response, probeI, probes, probeOk, posts, postOk, startRes,
                   stopCalls, tlog, delReturned, killThrew, flagSeen,
                   semVars, mutexVars, lruVars, retryVars, wdVars, capsVars>>

\* start() is called: spawnWebdriverProcess is awaited.
SessStart ==
    /\ sessPc = "created"
    /\ sessPc' = "spawning"
    /\ UNCHANGED <<variant, cleanCap, cleanDefault, process, response, probeI, probes,
                   probeOk, posts, postOk, startRes, stopCalls, tlog, delReturned,
                   killThrew, flagSeen,
                   semVars, mutexVars, lruVars, retryVars, wdVars, capsVars>>

\* The spawn is over: on success port and process are set and waitForReady
\* starts its retry loop at i = 0; on failure start() rejects.
SessSpawnDone(ok) ==
    /\ sessPc = "spawning"
    /\ IF ok
       THEN /\ sessPc' = "probing"
            /\ process' = TRUE
            /\ probeI' = 0
            /\ startRes' = startRes
       ELSE /\ sessPc' = "startFailed"
            /\ startRes' = [kind |-> "error", src |-> "spawn", n |-> 0]
            /\ UNCHANGED <<process, probeI>>
    /\ UNCHANGED <<variant, cleanCap, cleanDefault, response, probes, probeOk, posts,
                   postOk, stopCalls, tlog, delReturned, killThrew, flagSeen,
                   semVars, mutexVars, lruVars, retryVars, wdVars, capsVars>>

\* One iteration of waitForReady's retry loop: GET /status is issued and
\* answered.  A success ends waitForReady and start() goes on to createSession,
\* which issues POST /session.  A failure is retried after the interval unless
\* the retry test says no, and then its error is start()'s error.
SessProbe(ok) ==
    /\ sessPc = "probing"
    /\ probeI < EffectiveMax(ReadyMax)
    /\ probes' = probes + 1
    /\ IF ok
       THEN /\ sessPc' = "creating"
            /\ probeOk' = TRUE
            /\ posts' = posts + 1
            /\ startRes' = startRes
       ELSE IF ShouldRetry(FALSE, TRUE, probeI, EffectiveMax(ReadyMax))
            THEN /\ sessPc' = "probeDelay"
                 /\ UNCHANGED <<probeOk, posts, startRes>>
            ELSE /\ sessPc' = "startFailed"
                 /\ startRes' = [kind |-> "error", src |-> "probe", n |-> probes + 1]
                 /\ UNCHANGED <<probeOk, posts>>
    /\ UNCHANGED <<variant, cleanCap, cleanDefault, process, response, probeI, postOk,
                   stopCalls, tlog, delReturned, killThrew, flagSeen,
                   semVars, mutexVars, lruVars, retryVars, wdVars, capsVars>>

\* The interval is over: i++.  Were the loop condition i < max to fail here,
\* retry would return undefined, waitForReady would end and createSession
\* would issue POST /session.
SessProbeDelayDone ==
    /\ sessPc = "probeDelay"
    /\ probeI' = probeI + 1
    /\ IF probeI + 1 < EffectiveMax(ReadyMax)
       THEN /\ sessPc' = "probing"
            /\ posts' = posts
       ELSE /\ sessPc' = "creating"
            /\ posts' = posts + 1
    /\ UNCHANGED <<variant, cleanCap, cleanDefault, process, response, probes, probeOk,
                   postOk, startRes, stopCalls, tlog, delReturned, killThrew, flagSeen,
                   semVars, mutexVars, lruVars, retryVars, wdVars, capsVars>>

\* POST /session is answered: with a body, which becomes this.response and
\* start() returns it, or with an error, which start() rejects with.
SessCreateDone(ok, raw) ==
    /\ sessPc = "creating"
    /\ IF ok
       THEN /\ sessPc' = "ready"
            /\ response' = [set |-> TRUE, raw |-> raw]
            /\ postOk' = TRUE
            /\ startRes' = [kind |-> "value", src |-> "post", n |-> 0]
       ELSE /\ sessPc' = "startFailed"
            /\ startRes' = [kind |-> "error", src |-> "post", n |-> 0]
            /\ UNCHANGED <<response, postOk>>
    /\ UNCHANGED <<variant, cleanCap, cleanDefault, process, probeI, probes, probeOk,
                   posts, stopCalls, tlog, delReturned, killThrew, flagSeen,
                   semVars, mutexVars, lruVars, retryVars, wdVars, capsVars>>

\* stop() is called on a session whose start() returned: this.id is read for
\* the URL, and when it throws stop() rejects; otherwise DELETE /session/<id>
\* is issued and awaited.
SessStop ==
    /\ sessPc \in {"ready", "stopped", "stopFailed"}
    /\ stopCalls < MaxStops
    /\ stopCalls' = stopCalls + 1
    /\ delReturned' = FALSE
    /\ killThrew' = FALSE
    /\ flagSeen' = "unread"
    /\ IF SessionIdOf(response).threw
       THEN /\ sessPc' = "stopFailed"
            /\ tlog' = <<>>
       ELSE /\ sessPc' = "deleting"
            /\ tlog' = <<"delete">>
    /\ UNCHANGED <<variant, cleanCap, cleanDefault, process, response, probeI, probes,
                   probeOk, posts, postOk, startRes,
                   semVars, mutexVars, lruVars, retryVars, wdVars, capsVars>>

\* The delete command is answered.  An error rejects stop().  Otherwise
\* killProcessGroup() runs, then postStop(): the Chromium variant reads the
\* cleanup flag and the captured directory and, when both hold, awaits
\* fs.promises.rm; every other postStop returns at once and so does stop().
SessDeleteDone(ok, killFails) ==
    /\ sessPc = "deleting"
    /\ IF ~ok
       THEN /\ sessPc' = "stopFailed"
            /\ UNCHANGED <<tlog, delReturned, killThrew, flagSeen>>
       ELSE LET kill == killProcessGroup(process, killFails)
                steps == IF kill.attempted THEN <<"delete", "kill">> ELSE <<"delete">>
                flag == shouldCleanUserData(shouldcleanUserData(cleanCap), cleanDefault)
            IN /\ delReturned' = TRUE
               /\ killThrew' = (process /\ killFails)
               /\ IF kill.threw
                  THEN /\ sessPc' = "stopFailed"
                       /\ tlog' = steps
                       /\ flagSeen' = flagSeen
                  ELSE IF variant = "chromium"
                       THEN /\ flagSeen' = IF flag THEN "true" ELSE "false"
                            /\ IF flag /\ UserDataDirCaptured(response)
                               THEN /\ sessPc' = "removing"
                                    /\ tlog' = steps \o <<"postStop", "rm">>
                               ELSE /\ sessPc' = "stopped"
                                    /\ tlog' = steps \o <<"postStop">>
                       ELSE /\ sessPc' = "stopped"
                            /\ tlog' = steps \o <<"postStop">>
                            /\ flagSeen' = flagSeen
    /\ UNCHANGED <<variant, cleanCap, cleanDefault, process, response, probeI, probes,
                   probeOk, posts, postOk, startRes, stopCalls,
                   semVars, mutexVars, lruVars, retryVars, wdVars, capsVars>>

\* fs.promises.rm is over: its error, if any, is caught, and stop() returns.
SessRmDone(ok) ==
    /\ sessPc = "removing"
    /\ sessPc' = "stopped"
    /\ UNCHANGED <<variant, cleanCap, cleanDefault, process, response, probeI, probes,
                   probeOk, posts, postOk, startRes, stopCalls, tlog, delReturned,
                   killThrew, flagSeen,
                   semVars, mutexVars, lruVars, retryVars, wdVars, capsVars>>

SessNext ==
    \/ \E b \in BrowserNames, cap \in {"absent", "true", "false", "other"}, d \in BOOLEAN :
            SessNew(b, cap, d)
    \/ SessStart
    \/ \E ok \in BOOLEAN : SessSpawnDone(ok)
    \/ \E ok \in BOOLEAN : SessProbe(ok)
    \/ SessProbeDelayDone
    \/ \E ok \in BOOLEAN, raw \in RawResponses : SessCreateDone(ok, raw)
    \/ SessStop
    \/ \E ok \in BOOLEAN, killFails \in BOOLEAN : SessDeleteDone(ok, killFails)
    \/ \E ok \in BOOLEAN : SessRmDone(ok)

\* ---------------------------------------------------------- specifications

Init ==
    /\ SemInit
    /\ MutexInit
    /\ LruInit
    /\ RetryInit
    /\ WdInit
    /\ CapsInit
    /\ SessInit

SpecSem == Init /\ [][SemNext]_vars
SpecMutex == Init /\ [][MutexNext]_vars
SpecLru == Init /\ [][LruNext]_vars
SpecRetry == Init /\ [][RetryNext]_vars
SpecWatchdog == Init /\ [][WdNext]_vars
SpecCaps == Init /\ [][CapsNext]_vars
SpecSession == Init /\ [][SessNext]_vars

\* KeywordMutex under fair scheduling: a ready continuation is run (the job
\* queue is always drained), and a caller whose lock() resolved goes on to
\* call release().
SpecMutexLive ==
    /\ Init
    /\ [][MutexNext]_vars
    /\ WF_vars(MResume)
    /\ \A c \in MCallers : WF_vars(MRelease(c))

\* ------------------------------------------------------------------ claims

IsSorted(log, rank) == \A i, j \in 1..Len(log) : i < j => rank[log[i]] < rank[log[j]]

\* C1: for every key at most one caller at a time is between the resolution
\* of its lock(k) and its release(k): no two callers hold the same key.
C1_MutualExclusion ==
    \A c, d \in MCallers :
        (c # d /\ mpc[c] = "holding" /\ mpc[d] = "holding") => mkey[c] # mkey[d]

\* C2: a key has an entry in the map if and only if some caller holds it or
\* is suspended in lock(k) on it.
C2_MapIffHeldOrWaiting ==
    \A k \in MKeys :
        (map[k] # NoSem) <=>
            (\E c \in MCallers : mkey[c] = k /\ mpc[c] \in {"holding", "queued", "woken"})

\* C6: on a Semaphore of size SemSize the first SemSize wait() calls made
\* before any signal() are not queued; later wait() calls made before any
\* signal() stay queued while no signal() has been made; only a signal()
\* makes a queued caller ready, each signal() takes the longest-queued
\* caller, and callers resume in the order of their wait() calls.
C6_AdmissionAndFifo ==
    /\ \A c \in SCallers :
        (sTicket[c] # 0 /\ sTicket[c] <= SemSize /\ sSigAtWait[c] = 0) => ~sWasQueued[c]
    /\ \A c \in SCallers :
        (sTicket[c] > SemSize /\ nSignals = 0) => spc[c] = "queued"
    /\ Len(sWakeLog) <= nSignals
    /\ \A c \in SCallers :
        (sWasQueued[c] /\ spc[c] # "queued") => \E i \in 1..Len(sWakeLog) : sWakeLog[i] = c
    /\ IsSorted(sWakeLog, sTicket)
    /\ \A c \in SCallers : \A i \in 1..Len(sWakeLog) :
        spc[c] = "queued" => sTicket[sWakeLog[i]] < sTicket[c]
    /\ IsSorted(sResumeLog, sTicket)
    /\ Len(sResumeLog) <= Len(sWakeLog)
    /\ sResumeLog = SubSeq(sWakeLog, 1, Len(sResumeLog))

\* C6 witness: two queued callers were woken and have resumed, a third call
\* having been admitted without queueing before them.
C6_Witness ==
    /\ Len(sResumeLog) >= 2
    /\ \E c \in SCallers : sTicket[c] = SemSize /\ ~sWasQueued[c]

\* C7: a release(key) call that finds no semaphore registered for the key
\* fails, and leaves the map, every semaphore and the job queue as they were.
C7_ReleaseUnlockedFails ==
    [][\A c \in MCallers :
        (/\ mpc[c] \in {"idle", "holding"}
         /\ mpc'[c] \in {"released", "failed"}
         /\ map[mkey'[c]] = NoSem)
        => (mpc'[c] = "failed" /\ map' = map /\ sems' = sems /\ mjobs' = mjobs)]_vars

\* C7 witness: a caller that never locked has had its release() fail while
\* another caller holds a different key.
C7_Witness ==
    \E c, d \in MCallers :
        /\ mpc[c] = "failed" /\ msem[c] = NoSem
        /\ mpc[d] = "holding" /\ mkey[d] # mkey[c] /\ map[mkey[d]] # NoSem

\* C3: the number of keys stored in the cache never exceeds its capacity.
C3_CapacityBound == MapSize(cache) <= LruSize

\* C4: a set() of a key not in the cache, called while the cache holds
\* LruSize entries, removes exactly one entry, the least recently touched one.
C4_EvictsLeastRecent ==
    (lastOp.op = "set" /\ lastOp.isNew /\ lastOp.full) => lastOp.removed = {lastOp.lru}

\* C5: with capacity at least 2, a set() of a new key that overflows the cache
\* right after a get(k) hit does not evict k.
C5_ReadPromotion ==
    (/\ LruSize >= 2
     /\ lastOp.op = "set" /\ lastOp.isNew /\ lastOp.full
     /\ lastOp.readBefore # NoKey)
    => cache.map[lastOp.readBefore] # NoNode

\* Every error thrown so far is one retry() may retry: no predicate is given,
\* or the predicate accepts each of them.
AllRetryable == ~rcond \/ \A i \in 1..Len(rlog) : rlog[i] # "fatal"

\* C8: with max >= 1 and every error retryable, the callback is invoked again
\* after each failure until it succeeds or was invoked max times; retry()
\* returns the value of the invocation that succeeded (the max-th one after
\* max - 1 failures), and throws the error of the max-th invocation after max
\* failures, with one wait per failed attempt but none after the max-th.
C8_AttemptCount ==
    (rmax >= 1 /\ AllRetryable) =>
        /\ rcalls <= rmax
        /\ rpc = "loop" => (rcalls = ri /\ ri < rmax /\ rwaits = rcalls)
        /\ rpc = "delay" => (rcalls < rmax /\ rwaits = rcalls)
        /\ rpc = "returned" =>
            (/\ rres = [kind |-> "value", of |-> rcalls]
             /\ rlog[rcalls] = "ok"
             /\ rwaits = rcalls - 1)
        /\ rpc = "thrown" =>
            (/\ rcalls = rmax
             /\ rres = [kind |-> "error", of |-> rmax]
             /\ rwaits = rmax - 1)

\* C8 witness: with max = 3 the callback failed three times and retry() threw.
C8_Witness ==
    /\ rpc = "thrown" /\ rmax = 3 /\ rcalls = 3 /\ rwaits = 2
    /\ AllRetryable

\* C9: onTimeout is invoked at most once, and once it was invoked the timer is
\* cleared whatever feed() calls follow.
C9_FiresAtMostOnce ==
    /\ wfired <= 1
    /\ wfired = 1 => ~wtimer

\* C9 witness: onTimeout was invoked, feed() was called afterwards, and the
\* deadline set by that feed() has passed too.
C9_Witness ==
    /\ wfired = 1
    /\ wlastFeed > wfiredAt
    /\ wtimestamp < wnow

\* C10: onTimeout is invoked only at a time strictly more than the timeout
\* after the latest feed(); while no period as long as the timeout has passed
\* without a feed(), it has not been invoked.
C10_NeverFiresEarly ==
    /\ wfired >= 1 => wfiredAt > wfiredFeed + TimeoutSec * MsPerSec
    /\ wmaxGap < TimeoutSec * MsPerSec => wfired = 0

\* C10 witness: onTimeout was invoked after a feed() that followed construction.
C10_Witness ==
    /\ wfired = 1
    /\ wfiredFeed > 0

\* C16: a set() of a key already stored replaces its value and makes it the
\* first node of the list without evicting: the stored keys are the same
\* before and after, and every other key keeps its value.
C16_UpdateKeepsKeys ==
    (lastOp.op = "set" /\ ~lastOp.isNew) =>
        (lastOp.stored /\ lastOp.sameKeys /\ lastOp.othersKept /\ lastOp.removed = {})

\* C17: the available count of a Semaphore is never negative, and the callers
\* that completed wait() and have not called signal() are never more than its
\* size.
C17_CountBound ==
    /\ sem.size >= 0
    /\ Cardinality({c \in SCallers : spc[c] = "holding"}) <= SemSize

\* C18: getPending(key) is the number of callers suspended in lock(key): 0
\* for a key never locked or held with nobody waiting, w with w waiters.
C18_PendingCountsWaiters ==
    \A k \in MKeys :
        getPending(map, sems, k) =
            Cardinality({c \in MCallers : mkey[c] = k /\ mpc[c] \in {"queued", "woken"}})

\* C19: an error the predicate rejects, and a success, end retry() at once:
\* such an outcome is the last invocation, retry() has thrown that error or
\* returned that value, and the only waits are those after earlier failures.
C19_PredicateStops ==
    \A i \in 1..Len(rlog) :
        (rlog[i] = "ok" \/ (rcond /\ rlog[i] = "fatal")) =>
            /\ i = Len(rlog) /\ i = rcalls
            /\ rwaits = i - 1
            /\ IF rlog[i] = "ok"
               THEN rpc = "returned" /\ rres = [kind |-> "value", of |-> i]
               ELSE rpc = "thrown" /\ rres = [kind |-> "error", of |-> i]

\* C19 witness: with max = 3 and a predicate, the second invocation threw an
\* error the predicate rejects and retry() threw it.
C19_Witness ==
    /\ rcond /\ rmax = 3 /\ rcalls = 2
    /\ rlog = <<"retryable", "fatal">>
    /\ rpc = "thrown"

\* C14: in the body posted to create the session, a key set both by the
\* request's sanitized capabilities and by defaultCapabilities has the
\* request's value; a default value appears only for a key the request lacks.
C14_RequestWinsOverDefault ==
    cpc = "posted" =>
        \A k \in AllKeys :
            /\ (csan.hasDc /\ csan.dc[k] # Absent) => cposted.dc[k] = csan.dc[k]
            /\ (csan.hasAm /\ csan.am[k] # Absent) => cposted.am[k] = csan.am[k]

\* C15: the object sanitizedCapbilities returns has no vendor-routing key
\* under desiredCapabilities or capabilities.alwaysMatch, every other key has
\* the value it has in the request body, and the request body is unchanged.
C15_Sanitized ==
    cpc \in {"sanitized", "posted"} =>
        /\ \A k \in VendorKeys : csan.dc[k] = Absent /\ csan.am[k] = Absent
        /\ \A k \in AllKeys \ VendorKeys : csan.dc[k] = cdata0.dc[k] /\ csan.am[k] = cdata0.am[k]
        /\ csan.hasDc = cdata0.hasDc /\ csan.hasAm = cdata0.hasAm /\ csan.rest = cdata0.rest
        /\ cdata = cdata0

\* C15 witness: the getter was read for a body that sets a vendor key at both
\* places and an ordinary key beside it.
C15_Witness ==
    /\ cpc = "sanitized"
    /\ cdata0.hasDc /\ cdata0.hasAm
    /\ cdata0.dc["SF:NODE_TAGS"] # Absent /\ cdata0.am["browserVersion"] # Absent
    /\ cdata0.dc["browserName"] # Absent /\ cdata0.am["browserName"] # Absent

\* The session id the driver's answer carries where the code reads it: in its
\* value member, or at its top level when it has no value member.
ReportedId ==
    IF response.raw.hasValue THEN response.raw.value.sessionId ELSE response.raw.top.sessionId

\* C11 (amended): the readiness probe is issued at most 10 times; the
\* session-create command is issued only after a probe has succeeded and at
\* most once; if a probe succeeds and the session-create command then
\* succeeds, start() succeeds, and the session id equals the string session
\* id the driver's answer carries (the session has no identity when it
\* carries none); if all 10 probes fail, start() raises the
\* error of the 10th probe, no session-create command is issued and the
\* session has no identity.
C11_ReadinessProtocol ==
    /\ probes <= 10
    /\ posts <= 1
    /\ posts >= 1 => probeOk
    /\ (probeOk /\ postOk) =>
          /\ startRes.kind = "value"
          /\ ReportedId \in StringIds =>
                SessionIdOf(response) = [threw |-> FALSE, value |-> ReportedId]
          /\ ReportedId \notin StringIds => SessionIdOf(response).threw
    /\ (probes = 10 /\ ~probeOk) =>
          /\ sessPc = "startFailed"
          /\ startRes = [kind |-> "error", src |-> "probe", n |-> 10]
          /\ posts = 0
          /\ SessionIdOf(response).threw

\* C11 witness: the probe fails four times and succeeds on attempt 5, the
\* session is created and has the id the driver reported.
C11_Witness ==
    /\ sessPc = "ready"
    /\ probes = 5 /\ probeI = 4 /\ probeOk
    /\ posts = 1 /\ postOk
    /\ ReportedId = "s1"
    /\ SessionIdOf(response) = [threw |-> FALSE, value |-> "s1"]

\* C11 as stated: once a probe has succeeded, start() succeeds and the session
\* has the id the driver reported.
C11_ProbeSuccessSuffices ==
    /\ probes <= 10
    /\ posts <= 1
    /\ posts >= 1 => probeOk
    /\ (probeOk /\ sessPc # "creating") =>
          /\ startRes.kind = "value"
          /\ SessionIdOf(response) = [threw |-> FALSE, value |-> ReportedId]
    /\ (probes = 10 /\ ~probeOk) =>
          /\ sessPc = "startFailed"
          /\ startRes = [kind |-> "error", src |-> "probe", n |-> 10]
          /\ posts = 0
          /\ SessionIdOf(response).threw

InLog(step) == \E i \in 1..Len(tlog) : tlog[i] = step

\* C12: for a session whose start() succeeded (here: and whose driver
\* reported a string session id), every call of stop() returns without
\* raising and has attempted the process-group kill by then.
C12_StopAlwaysCompletes ==
    (stopCalls > 0 /\ ~SessionIdOf(response).threw /\ sessPc \in {"stopped", "stopFailed"}) =>
        (sessPc = "stopped" /\ InLog("kill"))

C20_TeardownOrder ==
    /\ tlog \in {<<>>, <<"delete">>, <<"delete", "kill">>, <<"delete", "kill", "postStop">>,
                 <<"delete", "kill", "postStop", "rm">>}
    /\ InLog("kill") => delReturned
    /\ killThrew => (InLog("postStop") /\ sessPc \in {"removing", "stopped"})

\* C20 witness: the kill raised, and the stop() went on to delete the
\* directory and returned.
C20_Witness ==
    /\ sessPc = "stopped"
    /\ killThrew
    /\ tlog = <<"delete", "kill", "postStop", "rm">>

\* C21 (amended): reading the session id raises in every state in which no
\* driver response with a string session id has been captured: before
\* start(), while start() is suspended at spawn, readiness polling or session
\* creation, and after a failed start(); once start() has succeeded with a
\* response that carries a string session id, the id is that value, and
\* nothing that happens later in the session's life changes what the id
\* getter gives.
C21_IdentityLifecycle ==
    /\ [](/\ sessPc \in {"none", "unsupported", "created", "spawning", "probing",
                         "probeDelay", "creating", "startFailed"} =>
                SessionIdOf(response).threw
          /\ ~(response.set /\ ReportedId \in StringIds) => SessionIdOf(response).threw
          /\ (startRes.kind = "value" /\ ReportedId \in StringIds) =>
                SessionIdOf(response) = [threw |-> FALSE, value |-> ReportedId])
    /\ [][startRes.kind = "value" => SessionIdOf(response') = SessionIdOf(response)]_vars

\* C21 witness: a session that was started, whose id is the driver's, and that
\* has since been stopped twice.
C21_Witness ==
    /\ sessPc = "stopped"
    /\ stopCalls = 2
    /\ startRes.kind = "value"
    /\ SessionIdOf(response) = [threw |-> FALSE, value |-> "s1"]

\* C21 as stated: the id raises until start() has succeeded, and is defined
\* from then on.
C21_DefinedOnceStarted ==
    /\ sessPc \in {"none", "unsupported", "created", "spawning", "probing",
                   "probeDelay", "creating", "startFailed"} =>
          SessionIdOf(response).threw
    /\ startRes.kind = "value" => ~SessionIdOf(response).threw

\* C22: a caller whose lock(key) has resolved, at once or after being woken
\* from the queue, can call release(key) without the 'has not been locked'
\* error: only callers that never locked see that error.
C22_HolderReleaseSucceeds ==
    \A c \in MCallers : mpc[c] = "failed" => msem[c] = NoSem

\* C23: when every caller whose lock(key) resolves goes on to call
\* release(key), every lock(key) that is pending eventually resolves.
C23_PendingLockResolves ==
    \A c \in MCallers : (mpc[c] = "queued") ~> (mpc[c] = "holding")

====
